---- MODULE Spec2Model ----
(***************************************************************************)
(* Model of src/precompress.rs: Compressor::precompress (the dispatcher),  *)
(* Compressor::worker, Compressor::encode_file, should_compress, Stats.    *)
(*                                                                         *)
(* A path is modelled as [dir, name]: the directory it lies in and its     *)
(* file name split at the dots ("a.html" is <<"a", "html">>); a path with  *)
(* no file-name component (the walk's root ".") has the empty name.        *)
(***************************************************************************)
EXTENDS Integers, Sequences, FiniteSets, Bags, TLC

\* ------------------------------------------------------------------ bounds
MaxThreads == 2
\* In a small site the dispatcher meets a further entry only while
\* threads * (units sent + units of one more file) stays within MaxWork.
MaxWork == 16
BigFiles == 17

\* ------------------------------------------------------- program constants
MinCap == 64

\* --------------------------------------------------------------- Algorithm
Algorithm == {"Brotli", "Deflate", "Gzip", "Zstd"}

\* Mutant of extension: the suffix of Deflate is the one of Gzip.
extensionClash(alg) ==
    CASE alg = "Brotli" -> "br"
      [] alg = "Deflate" -> "gz"
      [] alg = "Gzip" -> "gz"
      [] alg = "Zstd" -> "zst"

\* Algorithm::extension, without its leading dot.
extension(alg) ==
    CASE alg = "Brotli" -> "br"
      [] alg = "Deflate" -> "zz"
      [] alg = "Gzip" -> "gz"
      [] alg = "Zstd" -> "zst"

\* Algorithms: the four flags of a run's selection.
Algorithms == [brotli : BOOLEAN, deflate : BOOLEAN, gzip : BOOLEAN, zstd : BOOLEAN]

\* Mutant of Enabled: the Deflate send is guarded by the brotli flag.
EnabledCopyPaste(sel, alg) ==
    CASE alg = "Brotli" -> sel.brotli
      [] alg = "Deflate" -> sel.brotli
      [] alg = "Gzip" -> sel.gzip
      [] alg = "Zstd" -> sel.zstd

\* The flag of the selection that guards the send of alg (lines 111..126).
Enabled(sel, alg) ==
    CASE alg = "Brotli" -> sel.brotli
      [] alg = "Deflate" -> sel.deflate
      [] alg = "Gzip" -> sel.gzip
      [] alg = "Zstd" -> sel.zstd

\* ------------------------------------------------------------------- Stats
Stats_default ==
    [num_files |-> 0, num_errors |-> 0,
     brotli_time |-> 0, deflate_time |-> 0, gzip_time |-> 0, zstd_time |-> 0]

\* Mutant of Stats_add: zstd_time is copied from the left operand.
Stats_addDropsRhs(self, rhs) ==
    [num_files |-> self.num_files + rhs.num_files,
     num_errors |-> self.num_errors + rhs.num_errors,
     brotli_time |-> self.brotli_time + rhs.brotli_time,
     deflate_time |-> self.deflate_time + rhs.deflate_time,
     gzip_time |-> self.gzip_time + rhs.gzip_time,
     zstd_time |-> self.zstd_time]

\* Mutant of Stats_add: num_errors takes the left operand's num_files.
Stats_addTypo(self, rhs) ==
    [num_files |-> self.num_files + rhs.num_files,
     num_errors |-> self.num_files + rhs.num_errors,
     brotli_time |-> self.brotli_time + rhs.brotli_time,
     deflate_time |-> self.deflate_time + rhs.deflate_time,
     gzip_time |-> self.gzip_time + rhs.gzip_time,
     zstd_time |-> self.zstd_time + rhs.zstd_time]

Stats_add(self, rhs) ==
    [num_files |-> self.num_files + rhs.num_files,
     num_errors |-> self.num_errors + rhs.num_errors,
     brotli_time |-> self.brotli_time + rhs.brotli_time,
     deflate_time |-> self.deflate_time + rhs.deflate_time,
     gzip_time |-> self.gzip_time + rhs.gzip_time,
     zstd_time |-> self.zstd_time + rhs.zstd_time]
\* ------------------------------------------------------------- EXTENSIONS
\* Mutant of EXTENSIONS: the suffix of Gzip is in the set.
EXTENSIONSWithGz ==
    {"atom", "conf", "css", "eot", "htm", "html", "js", "json", "jsx", "md",
     "otf", "rss", "scss", "sitemap", "svg", "text", "ts", "tsx", "ttf", "txt",
     "wasm", "xml", "yaml", "gz"}

EXTENSIONS ==
    {"atom", "conf", "css", "eot", "htm", "html", "js", "json", "jsx", "md",
     "otf", "rss", "scss", "sitemap", "svg", "text", "ts", "tsx", "ttf", "txt",
     "wasm", "xml", "yaml"}

\* File-name components that are not valid UTF-8 (OsStr::to_str gives None).
NotUtf8 == {"<0xff>"}

\* Path::file_name: None for a path without a final normal component.
HasFileName(path) == path.name # <<>>

\* Path::extension: the part of the file name after its last dot; None when
\* there is no file name, no dot, or the only dot is the leading one.
HasExtension(path) ==
    /\ Len(path.name) >= 2
    /\ ~(Len(path.name) = 2 /\ path.name[1] = "")

PathExtension(path) == path.name[Len(path.name)]

should_compress(path) ==
    IF HasExtension(path)
    THEN IF PathExtension(path) \notin NotUtf8
         THEN PathExtension(path) \in EXTENSIONS
         ELSE FALSE
    ELSE FALSE

\* file_name.push(alg.extension()); path.with_file_name(file_name): the
\* suffix ".br" adds one component to the name, in the same directory.
DstPath(alg, path) ==
    [dir |-> path.dir, name |-> Append(path.name, extension(alg))]

\* -------------------------------------------------------- the file system
\* What lies under the walked root. kind: "file", "dir", "symlink" (to a
\* regular file). readable: File::open succeeds (as it does on a directory
\* opened for reading). dst_fail: the algorithms
\* whose destination File::create fails. codec_fail: the algorithms whose
\* codec call returns an error. cost: the time one codec call takes.
File(dir, name, kind, readable, dst_fail, codec_fail, cost) ==
    [err |-> FALSE, path |-> [dir |-> dir, name |-> name], kind |-> kind,
     readable |-> readable, dst_fail |-> dst_fail, codec_fail |-> codec_fail,
     cost |-> cost]

\* A traversal error: the walk yields Err instead of an entry.
WalkError == [err |-> TRUE]

\* The entries a small site may hold, in the order the walk meets them; each
\* of them may be there or not, but for the one the walk cannot read, which is
\* there.
Universe ==
    << File(0, <<>>, "dir", TRUE, {}, {}, 1),
       File(0, <<"", "txt">>, "file", TRUE, {}, {}, 1),
       File(0, <<"B", "HTML">>, "file", TRUE, {}, {}, 1),
       File(0, <<"e", "<0xff>">>, "file", TRUE, {}, {}, 1),
       File(0, <<"a", "png">>, "file", TRUE, {}, {}, 1),
       File(0, <<"a", "html">>, "file", TRUE, {}, {}, 1),
       File(0, <<"link", "html">>, "symlink", TRUE, {}, {}, 1),
       File(0, <<"b", "css">>, "file", FALSE, {}, {}, 1),
       File(0, <<"a", "html", "gz">>, "file", TRUE, {}, {}, 1),
       WalkError,
       File(0, <<"c", "js">>, "file", TRUE, {"Gzip"}, {"Brotli"}, 2),
       File(0, <<"d", "svg">>, "dir", FALSE, {}, {}, 1) >>

\* A big site: BigFiles directories, each holding one index.html; the files
\* of the odd directories cannot be read.
BigTree ==
    [i \in 1..BigFiles |->
        File(i, <<"index", "html">>, "file", i % 2 = 0, {}, {}, 1)]

AllEntries ==
    {Universe[i] : i \in 1..Len(Universe)} \cup {BigTree[i] : i \in 1..BigFiles}

\* The file-system entry at a path.
Lookup(path) == CHOOSE e \in AllEntries : ~e.err /\ e.path = path

\* Path::is_symlink and Path::is_file (which follows links).
is_symlink(path) == Lookup(path).kind = "symlink"
is_file(path) == Lookup(path).kind \in {"file", "symlink"}

\* The entries under a root: of the small site any may be missing, the big
\* site is complete.
Site(r) == IF r = "big" THEN BigTree ELSE Universe

SiteLen(r) == IF r = "big" THEN BigFiles ELSE Len(Universe)

\* ------------------------------------------------------------ encode_file
\* Mutant of encode_file: the destination is created before the source is
\* opened.
encode_fileCreatesFirst(alg, path) ==
    IF ~HasFileName(path)
    THEN [ok |-> Lookup(path).readable, out |-> {}]
    ELSE IF alg \in Lookup(path).dst_fail
    THEN [ok |-> FALSE, out |-> {}]
    ELSE IF ~Lookup(path).readable \/ alg \in Lookup(path).codec_fail
    THEN [ok |-> FALSE, out |-> {[path |-> DstPath(alg, path), content |-> "partial"]}]
    ELSE [ok |-> TRUE, out |-> {[path |-> DstPath(alg, path), content |-> "full"]}]

\* The result of Compressor::encode_file and the destination file it leaves:
\* out is empty when no destination was created, else one file with its
\* content ("full": the whole compressed stream, "partial": created or
\* truncated, and the codec failed).
encode_file(alg, path) ==
    IF ~Lookup(path).readable
    THEN [ok |-> FALSE, out |-> {}]
    ELSE IF ~HasFileName(path)
    THEN [ok |-> TRUE, out |-> {}]
    ELSE IF alg \in Lookup(path).dst_fail
    THEN [ok |-> FALSE, out |-> {}]
    ELSE IF alg \in Lookup(path).codec_fail
    THEN [ok |-> FALSE, out |-> {[path |-> DstPath(alg, path), content |-> "partial"]}]
    ELSE [ok |-> TRUE, out |-> {[path |-> DstPath(alg, path), content |-> "full"]}]

\* start.elapsed(): the time the encode call took.
Elapsed(path) == Lookup(path).cost

\* Mutant of Account: the elapsed time is added before the result is looked
\* at, so that a failed unit counts in its algorithm's time too.
AccountTimesFailures(st, alg, ok, dur) ==
    LET timed == [st EXCEPT
                    !.brotli_time = IF alg = "Brotli" THEN @ + dur ELSE @,
                    !.deflate_time = IF alg = "Deflate" THEN @ + dur ELSE @,
                    !.gzip_time = IF alg = "Gzip" THEN @ + dur ELSE @,
                    !.zstd_time = IF alg = "Zstd" THEN @ + dur ELSE @]
    IN IF ~ok
       THEN [timed EXCEPT !.num_errors = @ + 1]
       ELSE [timed EXCEPT !.num_files = @ + 1]

\* Mutant of Account: a failed unit is warned about and not counted.
AccountForgetsErrors(st, alg, ok, dur) ==
    IF ~ok
    THEN st
    ELSE [st EXCEPT
            !.brotli_time = IF alg = "Brotli" THEN @ + dur ELSE @,
            !.deflate_time = IF alg = "Deflate" THEN @ + dur ELSE @,
            !.gzip_time = IF alg = "Gzip" THEN @ + dur ELSE @,
            !.zstd_time = IF alg = "Zstd" THEN @ + dur ELSE @,
            !.num_files = @ + 1]

\* The worker's update of its statistics for one item (lines 145..157).
Account(st, alg, ok, dur) ==
    IF ~ok
    THEN [st EXCEPT !.num_errors = @ + 1]
    ELSE [st EXCEPT
            !.brotli_time = IF alg = "Brotli" THEN @ + dur ELSE @,
            !.deflate_time = IF alg = "Deflate" THEN @ + dur ELSE @,
            !.gzip_time = IF alg = "Gzip" THEN @ + dur ELSE @,
            !.zstd_time = IF alg = "Zstd" THEN @ + dur ELSE @,
            !.num_files = @ + 1]

\* --------------------------------------------------------------- the state
VARIABLES
    threads,     \* Compressor.threads
    algorithms,  \* Compressor.algorithms
    root,        \* the path precompress walks: "small" or "big"
    dpc,         \* where precompress is
    pos,         \* index in Site(root) of the entry the walk yielded last
    queue,       \* the bounded channel's buffer
    tx,          \* the Sender is alive
    rx,          \* precompress's own Receiver is alive
    handles,     \* number of workers spawned
    joined,      \* number of handles joined
    stats,       \* precompress's accumulator
    wpc,         \* where each worker is
    witem,       \* the unit each worker holds
    wstats,      \* each worker's local Stats
    met,         \* history: the paths of the entries the walk yielded that
                 \* are regular files, no symlinks, with an extension of
                 \* EXTENSIONS
    sent,        \* history: the units sent, in order
    handled,     \* history: bag of the units processed
    outputs,     \* the destination files: those created during the run and
                 \* those an earlier run left (content "old")
    warnings     \* number of warnings written with eprintln!

vars == <<threads, algorithms, root, dpc, pos, queue, tx, rx, handles, joined,
          stats, wpc, witem, wstats, met, sent, handled, outputs, warnings>>

Workers == 1..threads

NoItem == [alg |-> "-", path |-> [dir |-> 0, name |-> <<>>]]

Max(a, b) == IF a >= b THEN a ELSE b

\* let cap = max(self.threads * 2, 64)
cap == Max(threads * 2, MinCap)

\* Mutant of Receivers: precompress's Receiver is moved into the workers, none
\* is kept.
ReceiversOfWorkers ==
    Cardinality({w \in Workers : wpc[w] \in {"start", "recv", "encode"}})

\* The number of live Receiver handles: precompress's own and one clone per
\* running worker.
Receivers ==
    (IF rx THEN 1 ELSE 0) + Cardinality({w \in Workers : wpc[w] \in {"start", "recv", "encode"}})

\* What every run starts from, after Compressor::new and bounded(cap).
Start ==
    /\ dpc = "spawn" /\ pos = 0 /\ queue = <<>> /\ tx = TRUE /\ rx = TRUE
    /\ handles = 0 /\ joined = 0 /\ stats = Stats_default
    /\ wpc = [w \in Workers |-> "none"]
    /\ witem = [w \in Workers |-> NoItem]
    /\ wstats = [w \in Workers |-> Stats_default]
    /\ met = {} /\ sent = <<>> /\ handled = EmptyBag /\ outputs = {}
    /\ warnings = 0

Init ==
    /\ threads \in 1..MaxThreads
    /\ algorithms \in Algorithms
    /\ root = "small"
    /\ Start

\* A big site, every algorithm selected: more units than the channel holds.
InitBig ==
    /\ threads = 1
    /\ algorithms = [brotli |-> TRUE, deflate |-> TRUE, gzip |-> TRUE, zstd |-> TRUE]
    /\ root = "big"
    /\ Start

\* ------------------------------------------------------------- precompress
\* Mutant of Spawn: the loop runs over 1..self.threads, one worker short.
SpawnOneShort ==
    /\ dpc = "spawn"
    /\ IF handles < threads - 1
       THEN /\ handles' = handles + 1
            /\ wpc' = [wpc EXCEPT ![handles + 1] = "start"]
            /\ dpc' = dpc
       ELSE /\ dpc' = "walk"
            /\ UNCHANGED <<handles, wpc>>
    /\ UNCHANGED <<threads, algorithms, root, warnings, pos, queue, tx, rx, joined, stats,
                   witem, wstats, met, sent, handled, outputs>>

\* for _ in 0..self.threads { let rx = rx.clone(); handles.push(spawn(..)) }:
\* one turn starts one worker thread; after the last, the walk begins.
Spawn ==
    /\ dpc = "spawn"
    /\ IF handles < threads
       THEN /\ handles' = handles + 1
            /\ wpc' = [wpc EXCEPT ![handles + 1] = "start"]
            /\ dpc' = dpc
       ELSE /\ dpc' = "walk"
            /\ UNCHANGED <<handles, wpc>>
    /\ UNCHANGED <<threads, algorithms, root, warnings, pos, queue, tx, rx, joined, stats,
                   witem, wstats, met, sent, handled, outputs>>

\* Mutant of Eligible: the symlink test is left out.
EligibleFollowsLinks(path) == should_compress(path) /\ is_file(path)

\* The test of line 110.
Eligible(path) == should_compress(path) /\ ~is_symlink(path) /\ is_file(path)

\* The number of flags set in the selection.
NumEnabled == Cardinality({alg \in Algorithm : Enabled(algorithms, alg)})

\* The entries the walk may yield next: any later entry of a small site, up
\* to the first that yields Err.
NextEntries ==
    IF root = "big"
    THEN {pos + 1} \cap (1..BigFiles)
    ELSE IF threads * (Len(sent) + NumEnabled) <= MaxWork
         THEN {j \in (pos + 1)..Len(Universe) :
                    \A i \in (pos + 1)..(j - 1) : ~Universe[i].err}
         ELSE {}

\* The walk may be exhausted.
WalkOver == root = "big" => pos = BigFiles

\* An eligible file in the words of the specification: a regular file, not a
\* symbolic link, whose extension is in the eligibility set.
EligibleFile(e) ==
    /\ ~e.err
    /\ e.kind = "file"
    /\ Len(e.path.name) >= 2
    /\ e.path.name[1] # ""
    /\ e.path.name[Len(e.path.name)] \in EXTENSIONS

\* Mutant of WalkNext: the Err of the walk is unwrapped, so that a traversal
\* error ends the run.
WalkNextErrFatal ==
    /\ dpc = "walk"
    /\ \E j \in NextEntries :
         LET entry == Site(root)[j]
         IN /\ pos' = j
            /\ dpc' = IF entry.err THEN "panic"
                      ELSE IF Eligible(entry.path) THEN "Brotli"
                      ELSE "walk"
            /\ met' = IF EligibleFile(entry) THEN met \cup {entry.path} ELSE met
            /\ warnings' = IF entry.err THEN warnings + 1 ELSE warnings
    /\ UNCHANGED <<threads, algorithms, root, queue, tx, rx, handles, joined,
                   stats, wpc, witem, wstats, sent, handled, outputs>>

\* One turn of `for entry in walk`: an Err is warned about (eprintln!) and
\* the loop continues with the next entry, an
\* entry that passes the test of line 110 goes to the four sends.
WalkNext ==
    /\ dpc = "walk"
    /\ \E j \in NextEntries :
         LET entry == Site(root)[j]
         IN /\ pos' = j
            /\ dpc' = IF entry.err THEN "walk"
                      ELSE IF Eligible(entry.path) THEN "Brotli"
                      ELSE "walk"
            /\ met' = IF EligibleFile(entry) THEN met \cup {entry.path} ELSE met
            /\ warnings' = IF entry.err THEN warnings + 1 ELSE warnings
    /\ UNCHANGED <<threads, algorithms, root, queue, tx, rx, handles, joined,
                   stats, wpc, witem, wstats, sent, handled, outputs>>

AfterSend(alg) ==
    CASE alg = "Brotli" -> "Deflate"
      [] alg = "Deflate" -> "Gzip"
      [] alg = "Gzip" -> "Zstd"
      [] alg = "Zstd" -> "walk"

\* Mutant of Send: the channel is unbounded, the send never blocks.
SendUnbounded(alg) ==
    /\ dpc = alg
    /\ IF ~Enabled(algorithms, alg)
       THEN /\ dpc' = AfterSend(alg)
            /\ UNCHANGED <<queue, sent>>
       ELSE /\ queue' = Append(queue, [alg |-> alg, path |-> Site(root)[pos].path])
            /\ sent' = Append(sent, [alg |-> alg, path |-> Site(root)[pos].path])
            /\ dpc' = AfterSend(alg)
    /\ UNCHANGED <<threads, algorithms, root, warnings, pos, tx, rx, handles, joined, stats,
                   wpc, witem, wstats, met, handled, outputs>>

\* if self.algorithms.<alg> { tx.send((alg, path)).expect("channel send") }:
\* the send blocks while the channel is full and fails, so that expect
\* panics, when no Receiver is left.
Send(alg) ==
    /\ dpc = alg
    /\ IF ~Enabled(algorithms, alg)
       THEN /\ dpc' = AfterSend(alg)
            /\ UNCHANGED <<queue, sent>>
       ELSE IF Receivers = 0
       THEN /\ dpc' = "panic"
            /\ UNCHANGED <<queue, sent>>
       ELSE /\ Len(queue) < cap
            /\ queue' = Append(queue, [alg |-> alg, path |-> Site(root)[pos].path])
            /\ sent' = Append(sent, [alg |-> alg, path |-> Site(root)[pos].path])
            /\ dpc' = AfterSend(alg)
    /\ UNCHANGED <<threads, algorithms, root, warnings, pos, tx, rx, handles, joined, stats,
                   wpc, witem, wstats, met, handled, outputs>>

\* Mutant of DropTx: the Sender is kept alive until precompress returns.
DropTxForgotten ==
    /\ dpc = "walk"
    /\ WalkOver
    /\ dpc' = "join"
    /\ UNCHANGED <<threads, algorithms, root, warnings, pos, queue, tx, rx, handles, joined,
                   stats, wpc, witem, wstats, met, sent, handled, outputs>>

\* The walk is exhausted: drop(tx).
DropTx ==
    /\ dpc = "walk"
    /\ WalkOver
    /\ tx' = FALSE
    /\ dpc' = "join"
    /\ UNCHANGED <<threads, algorithms, root, warnings, pos, queue, rx, handles, joined,
                   stats, wpc, witem, wstats, met, sent, handled, outputs>>

\* Mutant of Join: the worker's Stats are read without waiting for the worker
\* to end.
JoinEarly ==
    /\ dpc = "join"
    /\ joined < handles
    /\ IF wpc[joined + 1] # "panicked"
       THEN /\ stats' = Stats_add(stats, wstats[joined + 1])
            /\ joined' = joined + 1
            /\ UNCHANGED <<dpc, rx>>
       ELSE /\ dpc' = "panic"
            /\ rx' = FALSE
            /\ UNCHANGED <<stats, joined>>
    /\ UNCHANGED <<threads, algorithms, root, warnings, pos, queue, tx, handles, wpc, witem,
                   wstats, met, sent, handled, outputs>>

\* handle.join().expect(..); stats = stats + h_stats: blocks until the
\* worker has ended; a worker that panicked makes the expect panic.
Join ==
    /\ dpc = "join"
    /\ joined < handles
    /\ wpc[joined + 1] \in {"exited", "panicked"}
    /\ IF wpc[joined + 1] = "exited"
       THEN /\ stats' = Stats_add(stats, wstats[joined + 1])
            /\ joined' = joined + 1
            /\ UNCHANGED <<dpc, rx>>
       ELSE /\ dpc' = "panic"
            /\ rx' = FALSE
            /\ UNCHANGED <<stats, joined>>
    /\ UNCHANGED <<threads, algorithms, root, warnings, pos, queue, tx, handles, wpc, witem,
                   wstats, met, sent, handled, outputs>>

\* precompress returns stats; its Receiver is dropped.
Return ==
    /\ dpc = "join"
    /\ joined = handles
    /\ dpc' = "done"
    /\ rx' = FALSE
    /\ UNCHANGED <<threads, algorithms, root, warnings, pos, queue, tx, handles, joined,
                   stats, wpc, witem, wstats, met, sent, handled, outputs>>

\* ------------------------------------------------------------------ worker
\* let mut stats = Stats::default(); let mut ctx = Context::new(..).
Setup(w) ==
    /\ wpc[w] = "start"
    /\ wstats' = [wstats EXCEPT ![w] = Stats_default]
    /\ wpc' = [wpc EXCEPT ![w] = "recv"]
    /\ UNCHANGED <<threads, algorithms, root, warnings, dpc, pos, queue, tx, rx, handles,
                   joined, stats, witem, met, sent, handled, outputs>>

\* Mutant of Recv: the unit is read but left in the channel.
RecvPeek(w) ==
    /\ wpc[w] = "recv"
    /\ queue # <<>>
    /\ witem' = [witem EXCEPT ![w] = Head(queue)]
    /\ wpc' = [wpc EXCEPT ![w] = "encode"]
    /\ UNCHANGED <<threads, algorithms, root, warnings, dpc, pos, queue, tx, rx, handles,
                   joined, stats, wstats, met, sent, handled, outputs>>

\* rx.recv() gives Ok(unit): the head of the channel is taken out.
Recv(w) ==
    /\ wpc[w] = "recv"
    /\ queue # <<>>
    /\ witem' = [witem EXCEPT ![w] = Head(queue)]
    /\ queue' = Tail(queue)
    /\ wpc' = [wpc EXCEPT ![w] = "encode"]
    /\ UNCHANGED <<threads, algorithms, root, warnings, dpc, pos, tx, rx, handles, joined,
                   stats, wstats, met, sent, handled, outputs>>

\* Mutant of Encode: the error of encode_file is propagated out of the loop
\* (the worker returns after its first failed unit).
EncodeStopsOnError(w) ==
    /\ wpc[w] = "encode"
    /\ LET r == encode_file(witem[w].alg, witem[w].path)
       IN /\ wstats' = [wstats EXCEPT
                ![w] = Account(@, witem[w].alg, r.ok, Elapsed(witem[w].path))]
          /\ outputs' = {o \in outputs : \A n \in r.out : n.path # o.path} \cup r.out
          /\ warnings' = IF r.ok THEN warnings ELSE warnings + 1
          /\ wpc' = [wpc EXCEPT ![w] = IF r.ok THEN "recv" ELSE "exited"]
    /\ handled' = handled (+) SetToBag({witem[w]})
    /\ witem' = [witem EXCEPT ![w] = NoItem]
    /\ UNCHANGED <<threads, algorithms, root, dpc, pos, queue, tx, rx, handles,
                   joined, stats, met, sent>>

\* The body of the while loop: encode_file and the update of stats; a failed
\* unit is warned about (eprintln!).
Encode(w) ==
    /\ wpc[w] = "encode"
    /\ LET r == encode_file(witem[w].alg, witem[w].path)
       IN /\ wstats' = [wstats EXCEPT
                ![w] = Account(@, witem[w].alg, r.ok, Elapsed(witem[w].path))]
          /\ outputs' = {o \in outputs : \A n \in r.out : n.path # o.path} \cup r.out
          /\ warnings' = IF r.ok THEN warnings ELSE warnings + 1
    /\ handled' = handled (+) SetToBag({witem[w]})
    /\ witem' = [witem EXCEPT ![w] = NoItem]
    /\ wpc' = [wpc EXCEPT ![w] = "recv"]
    /\ UNCHANGED <<threads, algorithms, root, dpc, pos, queue, tx, rx, handles,
                   joined, stats, met, sent>>

\* Mutant of Exit: an empty channel is taken for a closed one (try_recv).
ExitOnEmpty(w) ==
    /\ wpc[w] = "recv"
    /\ queue = <<>>
    /\ wpc' = [wpc EXCEPT ![w] = "exited"]
    /\ UNCHANGED <<threads, algorithms, root, warnings, dpc, pos, queue, tx, rx, handles,
                   joined, stats, witem, wstats, met, sent, handled, outputs>>

\* rx.recv() gives Err: the channel is empty and the Sender is dropped; the
\* worker returns its stats.
Exit(w) ==
    /\ wpc[w] = "recv"
    /\ queue = <<>>
    /\ ~tx
    /\ wpc' = [wpc EXCEPT ![w] = "exited"]
    /\ UNCHANGED <<threads, algorithms, root, warnings, dpc, pos, queue, tx, rx, handles,
                   joined, stats, witem, wstats, met, sent, handled, outputs>>

Dispatcher ==
    \/ Spawn
    \/ WalkNext
    \/ \E alg \in Algorithm : Send(alg)
    \/ DropTx
    \/ Join
    \/ Return

Worker(w) ==
    \/ Setup(w)
    \/ Recv(w)
    \/ Encode(w)
    \/ Exit(w)

Next ==
    \/ Dispatcher
    \/ \E w \in Workers : Worker(w)

Spec == Init /\ [][Next]_vars

SpecBig == InitBig /\ [][Next]_vars

\* ---------------------------------------------------------------- faults
\* A worker thread panics: in Context::new or inside a codec call. Its
\* Receiver clone is dropped with the thread and the unit it held is lost.
Panic(w) ==
    /\ wpc[w] \in {"start", "encode"}
    /\ wpc' = [wpc EXCEPT ![w] = "panicked"]
    /\ witem' = [witem EXCEPT ![w] = NoItem]
    /\ UNCHANGED <<threads, algorithms, root, warnings, dpc, pos, queue, tx, rx, handles,
                   joined, stats, wstats, met, sent, handled, outputs>>

NextPanic ==
    \/ Next
    \/ \E w \in Workers : Panic(w)

SpecPanic == InitBig /\ [][NextPanic]_vars

\* ------------------------------------------------------- the fold of Stats
\* The largest value of a field of an operand.
MaxField == 1

\* The names of the fields of Stats.
StatsFields ==
    {"brotli_time", "deflate_time", "gzip_time", "zstd_time", "num_files", "num_errors"}

\* The Stats with at most n fields that are not zero, each up to MaxField.
StatsUpTo(n) ==
    IF n = 1
    THEN {[Stats_default EXCEPT ![f] = x] : f \in StatsFields, x \in 0..MaxField}
    ELSE {[[Stats_default EXCEPT ![f] = x] EXCEPT ![g] = y] :
             f \in StatsFields, g \in StatsFields, x \in 0..MaxField, y \in 0..MaxField}

\* Three workers have ended with the Stats a, b and c; precompress is about
\* to fold them (stats = Stats::default(), line 131).
InitAdd ==
    /\ threads = 3
    /\ algorithms \in {[brotli |-> TRUE, deflate |-> TRUE, gzip |-> TRUE, zstd |-> TRUE]}
    /\ root = "small"
    /\ dpc = "join" /\ pos = 0 /\ queue = <<>> /\ tx = FALSE /\ rx = TRUE
    /\ handles = 3 /\ joined = 0 /\ stats = Stats_default
    /\ wpc = [w \in Workers |-> "exited"]
    /\ witem = [w \in Workers |-> NoItem]
    /\ \E a \in StatsUpTo(2), b \in StatsUpTo(2), c \in StatsUpTo(1) :
         wstats = [w \in Workers |-> IF w = 1 THEN a ELSE IF w = 2 THEN b ELSE c]
    /\ met = {} /\ sent = <<>> /\ handled = EmptyBag /\ outputs = {}
    /\ warnings = 0

\* for handle in handles { stats = stats + handle.join() }, and the return.
NextAdd ==
    \/ Join
    \/ Return

SpecAdd == InitAdd /\ [][NextAdd]_vars

\* ------------------------------------------------------- the worker alone
\* The largest number of units in the channel a worker is started on.
MaxUnits == 2

\* The sequences of at most n elements of S.
SeqUpTo(S, n) == UNION {[1..k -> S] : k \in 0..n}

\* The paths of the units precompress can send from the small site.
SendablePaths ==
    {Universe[i].path : i \in {j \in 1..Len(Universe) :
                                 ~Universe[j].err /\ Eligible(Universe[j].path)}}

\* The paths without a file name (for which Path::file_name() is None).
NamelessPaths ==
    {Universe[i].path : i \in {j \in 1..Len(Universe) :
                                 ~Universe[j].err /\ ~HasFileName(Universe[j].path)}}

\* The destination files an earlier run left next to the files of Paths.
Stale(Paths) ==
    {[path |-> DstPath(alg, p), content |-> "old"] : alg \in Algorithm, p \in Paths}

\* Compressor::worker on its own: one or two workers are started on a channel
\* that holds units over Paths and whose Sender is dropped; precompress waits
\* in join. Destination files of an earlier run may be there.
InitWorker(Paths) ==
    /\ threads \in 1..2
    /\ algorithms \in {[brotli |-> TRUE, deflate |-> TRUE, gzip |-> TRUE, zstd |-> TRUE]}
    /\ root = "small"
    /\ dpc = "join" /\ pos = 0 /\ tx = FALSE /\ rx = TRUE
    /\ queue \in SeqUpTo([alg : Algorithm, path : Paths], MaxUnits)
    /\ sent = queue
    /\ handles = threads /\ joined = 0 /\ stats = Stats_default
    /\ wpc = [w \in Workers |-> "start"]
    /\ witem = [w \in Workers |-> NoItem]
    /\ wstats = [w \in Workers |-> Stats_default]
    /\ met = {} /\ handled = EmptyBag
    /\ outputs \in {{}, Stale(Paths)}
    /\ warnings = 0

NextWorker == \E w \in Workers : Worker(w)

\* The worker on units precompress can send.
SpecWorker == InitWorker(SendablePaths) /\ [][NextWorker]_vars

\* The worker on any unit of its type (Algorithm, PathBuf), a path without a
\* file name included.
SpecWorkerAny == InitWorker(SendablePaths \cup NamelessPaths) /\ [][NextWorker]_vars

\* ---------------------------------------------------------------- fairness
\* The scheduler runs a thread whenever one can take a step: the run does
\* not stop while some thread is runnable. (Nothing more is assumed: no
\* thread is promised a turn while another one keeps running.)
Fairness == WF_vars(Next)

\* Runs over the small site and runs over the big one, under fairness.
LiveSpec == (Init \/ InitBig) /\ [][Next]_vars /\ Fairness

\* ================================================================ claims
Range(seq) == {seq[i] : i \in 1..Len(seq)}

\* How often a unit is in a sequence of units.
Occurrences(u, seq) == Cardinality({i \in 1..Len(seq) : seq[i] = u})

\* How many workers hold the unit.
Holders(u) == Cardinality({w \in Workers : wpc[w] = "encode" /\ witem[w] = u})

\* The (file, algorithm) pairs the selection asks for among the files met.
Wanted ==
    {[alg |-> a, path |-> p] : a \in {b \in Algorithm : Enabled(algorithms, b)}, p \in met}

\* C1: every pair of an eligible file met by the walk and an enabled
\* algorithm is enqueued exactly once, and every enqueued unit is processed
\* exactly once: at any time each unit sent is in exactly one place (the
\* channel, one worker's hands, or done), nothing else is anywhere, and when
\* precompress returns every wanted pair has been sent and processed once.
C1_ExactlyOnce ==
    /\ \A u \in Range(sent) :
         /\ Occurrences(u, sent) = 1
         /\ u \in Wanted
         /\ Occurrences(u, queue) + Holders(u) + CopiesIn(u, handled) = 1
    /\ Range(queue) \cup BagToSet(handled) \subseteq Range(sent)
    /\ \A w \in Workers : wpc[w] = "encode" => witem[w] \in Range(sent)
    /\ dpc \in {"join", "done"} => Wanted \subseteq Range(sent)
    /\ dpc = "done" => \A u \in Wanted : CopiesIn(u, handled) = 1

\* C1 witness: a finished run of two workers, both of which processed units.
C1_Witness ==
    /\ dpc = "done"
    /\ threads = 2
    /\ Len(sent) >= 4
    /\ \A w \in Workers : wstats[w].num_files + wstats[w].num_errors >= 1

\* C2: when precompress returns, files_succeeded + files_failed is the
\* number of units the dispatcher sent.
C2_Conservation ==
    dpc = "done" => stats.num_files + stats.num_errors = Len(sent)

\* C2 witness: a finished run of two workers with successes and failures.
C2_Witness ==
    /\ dpc = "done"
    /\ threads = 2
    /\ stats.num_files >= 1
    /\ stats.num_errors >= 1
    /\ \A w \in Workers : wstats[w].num_files + wstats[w].num_errors >= 1

\* The order of the four sends for one file.
AlgOrder == <<"Brotli", "Deflate", "Gzip", "Zstd">>

\* The units of the files met, file by file in walk order, from entry i on.
RECURSIVE UnitsFrom(_)
UnitsFrom(i) ==
    IF i > SiteLen(root)
    THEN <<>>
    ELSE LET e == Site(root)[i]
             own == IF ~e.err /\ e.path \in met
                    THEN SelectSeq([k \in 1..4 |-> [alg |-> AlgOrder[k], path |-> e.path]],
                                   LAMBDA u : Enabled(algorithms, u.alg))
                    ELSE <<>>
         IN own \o UnitsFrom(i + 1)

\* A fully sequential run: one worker takes the first k units one after the
\* other; its Stats and the files it leaves.
RECURSIVE SeqStats(_, _)
SeqStats(units, k) ==
    IF k = 0
    THEN Stats_default
    ELSE Account(SeqStats(units, k - 1), units[k].alg,
                 encode_file(units[k].alg, units[k].path).ok, Elapsed(units[k].path))

RECURSIVE SeqOutputs(_, _)
SeqOutputs(units, k) ==
    IF k = 0
    THEN {}
    ELSE LET r == encode_file(units[k].alg, units[k].path)
             before == SeqOutputs(units, k - 1)
         IN {o \in before : \A n \in r.out : n.path # o.path} \cup r.out

\* C3: whatever the number of workers and the interleaving, precompress
\* returns the files_succeeded and files_failed totals of the sequential run
\* over the same files and selection, and leaves the same output files.
C3_SameAsSequential ==
    dpc = "done" =>
        LET units == UnitsFrom(1)
        IN /\ stats.num_files = SeqStats(units, Len(units)).num_files
           /\ stats.num_errors = SeqStats(units, Len(units)).num_errors
           /\ outputs = SeqOutputs(units, Len(units))

\* C3 witness: a finished run of two workers that both processed units, with
\* successes, failures and output files.
C3_Witness ==
    /\ dpc = "done"
    /\ threads = 2
    /\ \A w \in Workers : wstats[w].num_files >= 1 /\ wstats[w].num_errors >= 1
    /\ Cardinality(outputs) >= 3

\* The encode of a unit fails.
Fails(u) == ~encode_file(u.alg, u.path).ok

\* C4: a failed encode never stops its worker and never aborts the run: no
\* thread panics, a worker leaves its loop only when the channel is closed
\* and drained, and when precompress returns every unit sent was processed
\* and every unit whose own encode succeeds is counted as succeeded.
C4_Isolation ==
    /\ dpc # "panic"
    /\ \A w \in Workers :
         /\ wpc[w] # "panicked"
         /\ wpc[w] = "exited" => ~tx /\ queue = <<>>
    /\ dpc = "done" =>
         /\ \A u \in Range(sent) : CopiesIn(u, handled) = 1
         /\ stats.num_files = Cardinality({u \in Range(sent) : ~Fails(u)})
         /\ stats.num_errors = Cardinality({u \in Range(sent) : Fails(u)})

\* C4 witness: one worker did everything; after a failed unit it processed a
\* unit of the same file and a unit of another file, both with success.
C4_Witness ==
    /\ dpc = "done"
    /\ threads = 1
    /\ \E i, j \in 1..Len(sent) :
         i < j /\ Fails(sent[i]) /\ ~Fails(sent[j]) /\ sent[i].path = sent[j].path
    /\ \E i, j \in 1..Len(sent) :
         i < j /\ Fails(sent[i]) /\ ~Fails(sent[j]) /\ sent[i].path # sent[j].path
    /\ stats.num_files >= 2

\* The units sent and not yet processed.
InFlight == Len(sent) - BagCardinality(handled)

\* The number of workers that hold a unit.
Held == Cardinality({w \in Workers : wpc[w] = "encode"})

\* The dispatcher is at a send whose flag is set.
AtSend == dpc \in Algorithm /\ Enabled(algorithms, dpc)

\* C5: the channel never holds more than C = max(2 * thread_count, 64)
\* units; with C units in it the dispatcher, at a send, cannot take a step;
\* and the units in flight never exceed C plus the units workers hold, which
\* are at most thread_count.
C5_Backpressure ==
    /\ cap = (IF 2 * threads > 64 THEN 2 * threads ELSE 64)
    /\ Len(queue) <= cap
    /\ (Len(queue) = cap /\ AtSend) => ~ENABLED Dispatcher
    /\ Held <= threads
    /\ InFlight <= cap + Held

\* C5 witness: the channel is full, the dispatcher is blocked at a send and
\* the worker holds one more unit.
C5_Witness ==
    /\ Len(queue) = cap
    /\ AtSend
    /\ ~ENABLED Dispatcher
    /\ Held = 1
    /\ InFlight = cap + 1

\* C6: with every thread scheduled and every encode call returning, the run
\* never stops before precompress has returned, and precompress eventually
\* returns, with the Sender dropped and every worker out of its loop.
C6_Terminates ==
    /\ [](dpc # "done" => ENABLED Next)
    /\ <>(dpc = "done" /\ ~tx /\ \A w \in Workers : wpc[w] = "exited")

\* C6 witness: precompress has returned from a run in which more units were
\* sent than the channel holds, so the dispatcher was blocked on the way.
C6_Witness ==
    /\ dpc = "done"
    /\ Len(sent) > cap
    /\ stats.num_files + stats.num_errors = Len(sent)

\* The units that are in the channel or in a worker's hands.
Pending == Range(queue) \cup {witem[w] : w \in {v \in Workers : wpc[v] = "encode"}}

\* C7: a unit is processed only after it was sent; while the Sender lives no
\* worker has left its loop and a worker at an empty channel cannot take a
\* step; a worker has left its loop only if the Sender is dropped and every
\* unit sent has been taken out of the channel.
C7_Ordering ==
    /\ BagToSet(handled) \cup Pending \subseteq Range(sent)
    /\ \A w \in Workers :
         /\ (wpc[w] = "recv" /\ queue = <<>> /\ tx) => ~ENABLED Worker(w)
         /\ wpc[w] = "exited" =>
              /\ ~tx
              /\ queue = <<>>
              /\ \A u \in Range(sent) : Holders(u) + CopiesIn(u, handled) >= 1

\* C7 witness: one worker has left its loop while the other still holds the
\* last unit taken from the closed channel.
C7_Witness ==
    /\ \E w \in Workers : wpc[w] = "exited"
    /\ \E w \in Workers : wpc[w] = "encode"
    /\ Len(sent) >= 2

\* C8 (the claim as stated): once a worker has panicked, precompress never
\* returns Stats and does not hang: it has panicked itself or some thread
\* can still take a step.
C8_PanicAborts ==
    (\E w \in Workers : wpc[w] = "panicked") =>
        /\ dpc # "done"
        /\ dpc = "panic" \/ ENABLED NextPanic

\* The flag of the unit's algorithm is set in the selection.
Selected(u) ==
    \/ u.alg = "Brotli" /\ algorithms.brotli
    \/ u.alg = "Deflate" /\ algorithms.deflate
    \/ u.alg = "Gzip" /\ algorithms.gzip
    \/ u.alg = "Zstd" /\ algorithms.zstd

NoFlag ==
    ~algorithms.brotli /\ ~algorithms.deflate /\ ~algorithms.gzip /\ ~algorithms.zstd

\* C9: every unit in the channel or held by a worker has an algorithm whose
\* flag is set; with no flag set nothing is ever sent and precompress returns
\* all-zero Stats.
C9_OnlyEnabled ==
    /\ \A u \in Pending : Selected(u)
    /\ NoFlag => /\ sent = <<>>
                 /\ Pending = {}
                 /\ dpc = "done" => stats = Stats_default

\* C9 witness: a selection with set and unset flags, units in the channel and
\* one in a worker's hands.
C9_Witness ==
    /\ algorithms.gzip /\ algorithms.zstd /\ ~algorithms.brotli /\ ~algorithms.deflate
    /\ Len(queue) >= 2
    /\ \E w \in Workers : wpc[w] = "encode"

\* The path was met by the walk as a regular file, no symbolic link, with an
\* extension of the eligibility set.
RegularEligible(path) ==
    /\ path \in met
    /\ Lookup(path).kind = "file"
    /\ Len(path.name) >= 2
    /\ path.name[Len(path.name)] \in EXTENSIONS

\* C10: only paths the walk met as regular files, no symbolic links, with an
\* extension of the eligibility set are ever sent; a symbolic link is never
\* sent and no output file is created for it.
C10_OnlyEligible ==
    /\ \A u \in Range(sent) \cup Pending : RegularEligible(u.path)
    /\ \A o \in outputs :
         \E u \in Range(sent) : RegularEligible(u.path) /\ o.path = DstPath(u.alg, u.path)
    /\ \A e \in AllEntries :
         (~e.err /\ e.kind = "symlink") =>
            /\ \A u \in Range(sent) : u.path # e.path
            /\ \A o \in outputs, a \in Algorithm : o.path # DstPath(a, e.path)

\* C10 witness: the walk has just passed the symbolic link link.html, after a
\* file that was sent and for which an output exists already.
C10_Witness ==
    /\ dpc = "walk"
    /\ root = "small"
    /\ pos >= 1
    /\ Site(root)[pos] = File(0, <<"link", "html">>, "symlink", TRUE, {}, {}, 1)
    /\ Len(sent) >= 1
    /\ outputs # {}

\* The suffixes in the words of the specification: .br, .zz, .gz, .zst.
Suffix(alg) ==
    CASE alg = "Brotli" -> "br"
      [] alg = "Deflate" -> "zz"
      [] alg = "Gzip" -> "gz"
      [] alg = "Zstd" -> "zst"

\* The file named <file name of path><suffix of alg>, next to path.
NextTo(path, alg) == [dir |-> path.dir, name |-> Append(path.name, Suffix(alg))]

\* The output files at a place.
OutputsAt(place) == {o \in outputs : o.path = place}

\* The places an output is asked for: next to an eligible file met by the
\* walk, with the suffix of a selected algorithm.
Places == {NextTo(u.path, u.alg) : u \in Wanted}

\* C11 (the claim as stated): when precompress has returned, next to every
\* eligible file there is exactly one output for every selected algorithm,
\* and there is no other output.
C11_OutputForEvery ==
    dpc = "done" =>
        /\ \A u \in Wanted : Cardinality(OutputsAt(NextTo(u.path, u.alg))) = 1
        /\ \A o \in outputs : o.path \in Places

\* C11 (amended): when precompress has returned, next to every eligible file
\* there is, for every selected algorithm, exactly one complete output if the
\* unit's encode succeeded, exactly one truncated or partial output if its
\* codec failed, and none if the source could not be opened or the
\* destination not be created; there is no other output.
C11_OutputPerSuccess ==
    dpc = "done" =>
        /\ \A u \in Wanted :
             LET f == Lookup(u.path)
                 created == f.readable /\ u.alg \notin f.dst_fail
                 content == IF u.alg \in f.codec_fail THEN "partial" ELSE "full"
             IN OutputsAt(NextTo(u.path, u.alg)) =
                    IF created
                    THEN {[path |-> NextTo(u.path, u.alg), content |-> content]}
                    ELSE {}
        /\ \A o \in outputs : o.path \in Places

\* C11 witness: a finished run with Brotli and Deflate selected that met
\* a.html, b.css (which cannot be opened) and c.js (whose Brotli codec
\* fails): a.html.zz is complete, c.js.br is partial, b.css has no output.
C11_Witness ==
    /\ dpc = "done"
    /\ algorithms.brotli /\ algorithms.deflate
    /\ [dir |-> 0, name |-> <<"b", "css">>] \in met
    /\ [path |-> [dir |-> 0, name |-> <<"a", "html", "zz">>], content |-> "full"] \in outputs
    /\ [path |-> [dir |-> 0, name |-> <<"c", "js", "br">>], content |-> "partial"] \in outputs
    /\ \A o \in outputs : o.path.name[1] # "b"

RECURSIVE WorkerErrors(_)
\* The failures counted by the workers 1..n.
WorkerErrors(n) == IF n = 0 THEN 0 ELSE wstats[n].num_errors + WorkerErrors(n - 1)

\* The warnings that came from the walk.
WalkWarnings == warnings - WorkerErrors(threads)

\* The walk yields a traversal error in this step.
WalkErrorStep == dpc = "walk" /\ pos' # pos /\ Site(root)[pos'].err

\* C12: a traversal error is never fatal. The step in which the walk yields
\* one writes one warning, sends nothing, changes no statistic and leaves the
\* dispatcher in its loop; from there the walk can go on or end normally;
\* and whenever the walk is over, every eligible file met, before or after
\* the error, has been sent for every enabled algorithm.
C12_WalkErrorSkipped ==
    /\ [][WalkErrorStep =>
            /\ warnings' = warnings + 1
            /\ dpc' = "walk"
            /\ UNCHANGED <<queue, sent, met, stats, wstats, tx, rx, outputs>>]_vars
    /\ [](/\ dpc = "panic" => WalkWarnings = 0
          /\ (dpc = "walk" /\ pos >= 1 /\ Site(root)[pos].err) => ENABLED (WalkNext \/ DropTx)
          /\ dpc \in {"join", "done"} => Wanted \subseteq Range(sent))

\* C12 witness: precompress has returned after a walk that yielded an error
\* and, later, the eligible file c.js, which was processed.
C12_Witness ==
    /\ dpc = "done"
    /\ WalkWarnings = 1
    /\ [dir |-> 0, name |-> <<"c", "js">>] \in met
    /\ \E u \in BagToSet(handled) : u.path.name = <<"c", "js">>
    /\ stats.num_files + stats.num_errors = Len(sent)

RECURSIVE SumField(_, _)
\* The sum of one field over the local Stats of the workers 1..n.
SumField(f, n) == IF n = 0 THEN 0 ELSE wstats[n][f] + SumField(f, n - 1)

\* C13: the dispatcher reads a worker's local Stats only after that worker
\* has ended: the accumulator holds, field by field, the sum of the local
\* Stats of the workers joined so far, all of which have exited, and what
\* precompress returns is the sum over all `threads` workers. No statistic is
\* modified by two threads: a worker's local Stats change only in a step of
\* that worker, never after it has exited, and the accumulator changes only
\* in a step of the dispatcher that joins one exited worker.
C13_FoldAfterExit ==
    /\ [](/\ joined <= handles
          /\ \A w \in 1..joined : wpc[w] = "exited"
          /\ \A f \in StatsFields : stats[f] = SumField(f, joined)
          /\ dpc = "done" =>
               /\ joined = threads
               /\ \A f \in StatsFields : stats[f] = SumField(f, threads))
    /\ [][\A w \in Workers :
            wstats'[w] # wstats[w] =>
                /\ wpc[w] = "encode"
                /\ wpc'[w] # wpc[w]
                /\ \A v \in Workers \ {w} : wpc'[v] = wpc[v] /\ wstats'[v] = wstats[v]
                /\ UNCHANGED <<dpc, stats, joined>>]_vars
    /\ [][stats' # stats =>
            /\ dpc = "join"
            /\ joined' = joined + 1
            /\ wpc[joined'] = "exited"
            /\ UNCHANGED <<wpc, wstats>>]_vars

\* C13 witness: precompress has returned the sum of what two workers counted,
\* one of them successes and the other failures.
C13_Witness ==
    /\ dpc = "done"
    /\ threads = 2
    /\ wstats[1].num_files >= 1
    /\ wstats[2].num_errors >= 1
    /\ stats.num_files = wstats[1].num_files + wstats[2].num_files
    /\ stats.num_errors = wstats[1].num_errors + wstats[2].num_errors

\* C14: Stats addition is a commutative monoid on all six fields: the sum
\* has, in every field, the sum of the operands' fields, a + b = b + a,
\* (a + b) + c = a + (b + c), and Stats::default() is neutral on both sides;
\* so that the fold of the workers' Stats gives the same total in any order.
C14_CommutativeMonoid ==
    LET a == wstats[1]
        b == wstats[2]
        c == wstats[3]
    IN /\ \A f \in StatsFields : Stats_add(a, b)[f] = a[f] + b[f]
       /\ DOMAIN Stats_add(a, b) = StatsFields
       /\ Stats_add(a, b) = Stats_add(b, a)
       /\ Stats_add(Stats_add(a, b), c) = Stats_add(a, Stats_add(b, c))
       /\ Stats_add(a, Stats_default) = a
       /\ Stats_add(Stats_default, a) = a
       /\ dpc = "done" =>
            /\ stats = Stats_add(c, Stats_add(b, a))
            /\ stats = Stats_add(Stats_add(b, c), a)
            /\ stats = Stats_add(Stats_add(c, a), b)

\* C14 witness: the fold of three Stats is done; the operands differ, and two
\* of them have a field that is not zero where the third has its own.
C14_Witness ==
    /\ dpc = "done"
    /\ threads = 3
    /\ wstats[1].zstd_time = MaxField /\ wstats[1].num_files = MaxField
    /\ wstats[2].zstd_time = MaxField /\ wstats[2].num_errors = MaxField
    /\ wstats[3].gzip_time = MaxField
    /\ stats.zstd_time = 2 * MaxField

\* The duration counter of an algorithm, in the words of the specification.
TimeField(alg) ==
    CASE alg = "Brotli" -> "brotli_time"
      [] alg = "Deflate" -> "deflate_time"
      [] alg = "Gzip" -> "gzip_time"
      [] alg = "Zstd" -> "zstd_time"

\* Worker w finishes the unit it holds in this step.
Finishes(w) == wpc[w] = "encode" /\ wpc'[w] # "encode"

\* C15: for each unit a worker processes exactly one of two updates of its
\* local Stats happens. If the encode succeeded, files_succeeded grows by one
\* and the elapsed time is added to the counter of the unit's algorithm, and
\* nothing else changes; if it failed, files_failed grows by one and nothing
\* else changes. (The encode fails when the source cannot be opened, the
\* destination cannot be created or the codec fails.)
C15_OneOfTwoUpdates ==
    [][\A w \in Workers :
         Finishes(w) =>
            LET u == witem[w]
                f == Lookup(u.path)
                failed == ~f.readable \/ u.alg \in f.dst_fail \/ u.alg \in f.codec_fail
                old == wstats[w]
                new == wstats'[w]
            IN /\ new.num_files + new.num_errors = old.num_files + old.num_errors + 1
               /\ IF failed
                  THEN /\ new.num_errors = old.num_errors + 1
                       /\ \A g \in StatsFields \ {"num_errors"} : new[g] = old[g]
                  ELSE /\ new.num_files = old.num_files + 1
                       /\ new[TimeField(u.alg)] = old[TimeField(u.alg)] + f.cost
                       /\ \A g \in StatsFields \ {"num_files", TimeField(u.alg)} :
                            new[g] = old[g]
               /\ \A v \in Workers \ {w} : wstats'[v] = wstats[v]]_vars

\* C15 witness: one worker has processed both units of c.js under Deflate and
\* Gzip: the Deflate unit succeeded and took 2, the Gzip unit failed.
C15_Witness ==
    /\ algorithms.gzip /\ algorithms.deflate
    /\ \E w \in Workers :
         /\ wpc[w] = "recv"
         /\ wstats[w].num_files = 1
         /\ wstats[w].num_errors = 1
         /\ wstats[w].deflate_time = 2
         /\ wstats[w].gzip_time = 0
    /\ \E u \in BagToSet(handled) : u.alg = "Gzip" /\ u.path.name = <<"c", "js">>

Spawned == {w \in Workers : wpc[w] # "none"}

\* C17: exactly `threads` workers are spawned, all of them before the first
\* unit is enqueued, and the set of workers never grows afterwards: while the
\* dispatcher spawns, the walk has not begun and nothing was sent; once it
\* has left the spawn loop there are `threads` workers, and their number
\* changes no more.
C17_SpawnedBeforeWalk ==
    /\ [](/\ Cardinality(Spawned) = handles
          /\ handles <= threads
          /\ dpc = "spawn" => (pos = 0 /\ sent = <<>> /\ queue = <<>>)
          /\ dpc # "spawn" => handles = threads
          /\ (sent # <<>> \/ pos # 0) => handles = threads)
    /\ [][handles' # handles =>
            (dpc = "spawn" /\ handles' = handles + 1 /\ sent' = <<>> /\ pos' = 0)]_vars
    /\ [][dpc # "spawn" => Cardinality(Spawned') = Cardinality(Spawned)]_vars

\* C17 witness: with two threads, the first unit is in the channel and both
\* workers exist, the second not having run yet.
C17_Witness ==
    /\ threads = 2
    /\ handles = 2
    /\ Len(sent) = 1
    /\ Len(queue) = 1
    /\ wpc[2] = "start"

\* No worker thread is alive.
NoLiveWorker == \A w \in Workers : wpc[w] \in {"none", "exited", "panicked"}

\* C18: the dispatcher's send never fails with a disconnected channel, since
\* precompress keeps its own Receiver until it returns: while it spawns,
\* walks or sends, that Receiver is alive, whatever became of the workers; no
\* step at a send ends in the panic of expect("channel send") (a panic
\* arises only in join, after the Sender was dropped); and a send on a full
\* channel with no live worker does not fail, it blocks.
C18_SendNeverDisconnected ==
    /\ [](/\ dpc \in {"spawn", "walk"} \cup Algorithm => rx
          /\ dpc \in Algorithm => Receivers >= 1
          /\ dpc = "panic" => ~tx
          /\ (dpc \in Algorithm /\ Enabled(algorithms, dpc)
                /\ Len(queue) = cap /\ NoLiveWorker) => ~ENABLED Dispatcher)
    /\ [][(dpc \in Algorithm) => (dpc' # "panic")]_vars

\* C18 witness: the only worker has panicked, the channel is full and the
\* dispatcher is at a send with its own Receiver alive.
C18_Witness ==
    /\ NoLiveWorker
    /\ \E w \in Workers : wpc[w] = "panicked"
    /\ dpc \in Algorithm
    /\ Enabled(algorithms, dpc)
    /\ Len(queue) = cap
    /\ rx /\ tx

\* The destination of a unit.
Dst(u) == DstPath(u.alg, u.path)

\* C19: no file is written by one worker while another reads or writes it.
\* Two distinct units sent have distinct destinations; no destination is the
\* source of a unit sent, as none of the four suffixes is in the eligibility
\* set; an output file, created during the walk or left by an earlier run,
\* is never sent; and two workers that encode at the same time write files
\* the other neither reads nor writes.
C19_DistinctFiles ==
    /\ \A alg \in Algorithm : extension(alg) \notin EXTENSIONS
    /\ \A u \in Range(sent), v \in Range(sent) :
         /\ u # v => Dst(u) # Dst(v)
         /\ Dst(u) # v.path
         /\ u.path.name[Len(u.path.name)] \notin {"br", "zz", "gz", "zst"}
    /\ \A o \in outputs, u \in Range(sent) : o.path # u.path
    /\ \A w \in Workers, v \in Workers :
         (w # v /\ wpc[w] = "encode" /\ wpc[v] = "encode") =>
            Dst(witem[w]) \notin {witem[v].path, Dst(witem[v])}

\* C19 witness: a.html was compressed with Gzip and the walk has then met
\* the file a.html.gz, which it does not send; two workers are encoding two
\* other units at that time.
C19_Witness ==
    /\ dpc = "walk"
    /\ pos >= 1
    /\ ~Site(root)[pos].err
    /\ Site(root)[pos].path.name = <<"a", "html", "gz">>
    /\ [path |-> [dir |-> 0, name |-> <<"a", "html", "gz">>], content |-> "full"] \in outputs
    /\ \A w \in Workers : wpc[w] = "encode"
    /\ threads = 2

\* C20: within one encode the destination is created or truncated only
\* after the source was opened. In the step in which a worker finishes a unit
\* whose source cannot be opened, the unit is counted as failed and every
\* destination file, one left by an earlier run included, stays as it was;
\* in the step in which it finishes a unit whose codec fails, the unit is
\* counted as failed and its destination is there, truncated or partial,
\* whatever was there before; no other file changes.
C20_OpenBeforeCreate ==
    [][\A w \in Workers :
         Finishes(w) =>
            LET u == witem[w]
                f == Lookup(u.path)
                dst == NextTo(u.path, u.alg)
            IN /\ ~f.readable =>
                    /\ wstats'[w].num_errors = wstats[w].num_errors + 1
                    /\ wstats'[w].num_files = wstats[w].num_files
                    /\ outputs' = outputs
               /\ (f.readable /\ u.alg \notin f.dst_fail /\ u.alg \in f.codec_fail) =>
                    /\ wstats'[w].num_errors = wstats[w].num_errors + 1
                    /\ wstats'[w].num_files = wstats[w].num_files
                    /\ {o \in outputs' : o.path = dst} = {[path |-> dst, content |-> "partial"]}
                    /\ {o \in outputs' : o.path # dst} = {o \in outputs : o.path # dst}]_vars

\* C20 witness: with the files of an earlier run in place, a worker has
\* processed (Gzip, b.css), whose source cannot be opened, and (Brotli, c.js),
\* whose codec fails: b.css.gz is still the old file, c.js.br is partial.
C20_Witness ==
    /\ [alg |-> "Gzip", path |-> [dir |-> 0, name |-> <<"b", "css">>]] \in BagToSet(handled)
    /\ [alg |-> "Brotli", path |-> [dir |-> 0, name |-> <<"c", "js">>]] \in BagToSet(handled)
    /\ [path |-> [dir |-> 0, name |-> <<"b", "css", "gz">>], content |-> "old"] \in outputs
    /\ [path |-> [dir |-> 0, name |-> <<"c", "js", "br">>], content |-> "partial"] \in outputs
    /\ \A o \in outputs : o.path.name = <<"c", "js", "br">> => o.content = "partial"
    /\ \E w \in Workers : wstats[w].num_errors = 2

====
